---- MODULE Spec2Model ----
(***************************************************************************)
(* Model of signal_bot_15m.py: a scanner that, every 15 minutes, fetches   *)
(* the candle series of each pair of PAIRS, looks for a hammer or a        *)
(* shooting star on the last row, confirms it with trend, volume, EMA and  *)
(* RSI, and notifies and logs each signal.                                 *)
(*                                                                         *)
(* Numbers.  Prices and volumes are integers (ticks).  Python floats are   *)
(* modelled by exact rationals with the IEEE special values the code can   *)
(* produce (NaN, +inf): pandas divides 0/0 to NaN and x/0 to inf without   *)
(* raising, and every comparison with NaN is False.  EMA values have       *)
(* denominators (span+1)^i, so their numerators are kept as arbitrary      *)
(* precision naturals (little-endian digit sequences in base BigBase).     *)
(* Rounding of the binary floating point format is not modelled.           *)
(***************************************************************************)
EXTENDS Integers, Sequences, FiniteSets, TLC

\* pc             where main is: "start", "scan" (a cycle starts), "pair" (the
\*                loop body of pair i starts), "notify", "log", "delay" (line
\*                212), "cycle_end" (line 214), "crashed" (an exception left
\*                main); "fetched" and "analysed" when analyze_pair runs alone
\* now            time.time() modulo the 15 minute interval, in seconds
\* i              the index in PAIRS of the pair of the loop body
\* df             what fetch_ohlcv_df gave for pair i: [ok, rows, at]
\* locals         the local variables of analyze_pair when it returned
\* sigIdx         the index in signals of the signal being sent and logged
\* processed      the pairs whose loop body has started in this cycle
\* notifyResults  how send_telegram ended for each signal of pair i so far
\* logResults     how log_signal ended for each signal of pair i so far
\* logfile        the lines appended to signals.log since the loop body of
\*                pair i started (the log is never read back)
VARIABLES pc, now, i, df, locals, sigIdx, processed, notifyResults,
          logResults, logfile

vars == <<pc, now, i, df, locals, sigIdx, processed, notifyResults,
          logResults, logfile>>

(***************************************************************************)
(* CONFIG (lines 16-32)                                                    *)
(***************************************************************************)
PAIRS == <<"ETH/USDT", "BCH/USDT", "SOL/USDT", "TON/USDT", "LINK/USDT">>
INTER_DELAY == 1
VolMulNum == 9
VolMulDen == 10
RSI_PERIOD == 14
RSI_OVERSOLD == 40
RSI_OVERBOUGHT == 60
EMA_FAST == 20
EMA_SLOW == 50
\* 15 * 60, the candle interval in seconds
Interval == 900
\* the "+ 1" of time.sleep(wait + 1) and time.sleep(to_sleep + 1)
SettleDelay == 1
\* the 6 of "len(df) < 6" and df.iloc[-6:]
WindowRows == 6
\* the 20 of df["volume"][-20:]
VolRows == 20
\* body * 1.8 and body * 0.6, in tenths
ShadowLong == 18
ShadowShort == 6
ShadowDen == 10

(***************************************************************************)
(* Arbitrary precision naturals                                            *)
(***************************************************************************)
BigBase == 1000000

RECURSIVE BigFromNat(_)
BigFromNat(n) ==
    IF n = 0 THEN <<>> ELSE <<n % BigBase>> \o BigFromNat(n \div BigBase)

RECURSIVE BigAddC(_, _, _)
BigAddC(a, b, carry) ==
    IF a = <<>> /\ b = <<>>
    THEN (IF carry = 0 THEN <<>> ELSE <<carry>>)
    ELSE LET x == IF a = <<>> THEN 0 ELSE Head(a)
             y == IF b = <<>> THEN 0 ELSE Head(b)
             s == x + y + carry
         IN  <<s % BigBase>> \o
             BigAddC(IF a = <<>> THEN <<>> ELSE Tail(a),
                     IF b = <<>> THEN <<>> ELSE Tail(b), s \div BigBase)

BigAdd(a, b) == BigAddC(a, b, 0)

RECURSIVE BigMulC(_, _, _)
BigMulC(a, m, carry) ==
    IF a = <<>>
    THEN BigFromNat(carry)
    ELSE LET s == Head(a) * m + carry
         IN  <<s % BigBase>> \o BigMulC(Tail(a), m, s \div BigBase)

\* a * m for a small natural m (m * BigBase fits a machine integer)
BigMul(a, m) == IF m = 0 THEN <<>> ELSE BigMulC(a, m, 0)

RECURSIVE BigMulPow(_, _, _)
\* a * m^k (the test of the product makes TLC compute it before it goes on)
BigMulPow(a, m, k) ==
    IF k = 0 THEN a
    ELSE LET prod == BigMul(a, m)
         IN  IF prod = <<>> THEN <<>> ELSE BigMulPow(prod, m, k - 1)

RECURSIVE BigLessFrom(_, _, _)
BigLessFrom(a, b, j) ==
    IF j = 0 THEN FALSE
    ELSE IF a[j] # b[j] THEN a[j] < b[j]
    ELSE BigLessFrom(a, b, j - 1)

BigLess(a, b) ==
    IF Len(a) # Len(b) THEN Len(a) < Len(b) ELSE BigLessFrom(a, b, Len(a))

(***************************************************************************)
(* Floats: exact rationals n/d (d > 0) with NaN and +inf                   *)
(***************************************************************************)
NaN == [k |-> "nan", n |-> 0, d |-> 1]
Inf == [k |-> "inf", n |-> 0, d |-> 1]
Fin(n, d) == [k |-> "fin", n |-> n, d |-> d]

FAdd(a, b) ==
    IF a.k = "nan" \/ b.k = "nan" THEN NaN
    ELSE IF a.k = "inf" \/ b.k = "inf" THEN Inf
    ELSE Fin(a.n * b.d + b.n * a.d, a.d * b.d)

\* a / b for a, b >= 0, as numpy divides floats: x/0 = inf, 0/0 = nan
FDiv(a, b) ==
    IF a.k = "nan" \/ b.k = "nan" THEN NaN
    ELSE IF b.k = "inf" THEN (IF a.k = "inf" THEN NaN ELSE Fin(0, 1))
    ELSE IF a.k = "inf" THEN Inf
    ELSE IF b.n = 0 THEN (IF a.n = 0 THEN NaN ELSE Inf)
    ELSE Fin(a.n * b.d, a.d * b.n)

\* a - b for a finite a
FSub(a, b) ==
    IF a.k = "nan" \/ b.k = "nan" \/ b.k = "inf" \/ a.k = "inf" THEN NaN
    ELSE Fin(a.n * b.d - b.n * a.d, a.d * b.d)

\* a <= b and a >= b: False when either side is NaN
FLe(a, b) ==
    /\ a.k # "nan" /\ b.k # "nan"
    /\ \/ b.k = "inf"
       \/ a.k = "fin" /\ b.k = "fin" /\ a.n * b.d <= b.n * a.d

FGe(a, b) == FLe(b, a)

\* a * b for finite a, b
FMul(a, b) ==
    IF a.k = "nan" \/ b.k = "nan" THEN NaN
    ELSE IF a.k = "inf" \/ b.k = "inf" THEN Inf
    ELSE Fin(a.n * b.n, a.d * b.d)

(***************************************************************************)
(* Indicators (lines 65-77)                                                *)
(***************************************************************************)
Max2(a, b) == IF a >= b THEN a ELSE b
Min2(a, b) == IF a <= b THEN a ELSE b
Abs(a) == IF a >= 0 THEN a ELSE 0 - a

RECURSIVE SumSeq(_)
SumSeq(s) == IF s = <<>> THEN 0 ELSE Head(s) + SumSeq(Tail(s))

\* series.diff(): row 1 is NaN, row j >= 2 holds series[j] - series[j-1]
diff(series) ==
    [j \in 1..Len(series) |->
        IF j = 1 THEN NaN ELSE Fin(series[j] - series[j - 1], 1)]

\* delta.clip(lower=0) and -1 * delta.clip(upper=0): NaN stays NaN
clip_up(delta) ==
    [j \in 1..Len(delta) |->
        IF delta[j].k = "nan" THEN NaN ELSE Fin(Max2(delta[j].n, 0), 1)]

clip_down(delta) ==
    [j \in 1..Len(delta) |->
        IF delta[j].k = "nan" THEN NaN ELSE Fin(0 - Min2(delta[j].n, 0), 1)]

\* The mutant of RollingMean: min_periods=1, the mean of the numbers the
\* window holds
RollingMean_min1(col, period, j) ==
    LET rows == {m \in Max2(1, j - period + 1)..j : col[m].k # "nan"}
    IN  IF rows = {} THEN NaN
        ELSE Fin(SumSeq([m \in 1..j |-> IF m \in rows THEN col[m].n ELSE 0]),
                 Cardinality(rows))

\* col.rolling(period, min_periods=period).mean() at row j: the mean of the
\* rows j-period+1 .. j, NaN unless the window holds period numbers
RollingMean(col, period, j) ==
    IF j < period \/ \E m \in (j - period + 1)..j : col[m].k = "nan"
    THEN NaN
    ELSE Fin(SumSeq([m \in 1..period |-> col[j - period + m].n]), period)

\* compute_rsi(series, period): rs = ma_up / ma_down,
\* rsi = 100 - (100 / (1 + rs)); x / 0 = inf, 0 / 0 = NaN, 100 / inf = 0
compute_rsi(series, period) ==
    LET delta == diff(series)
        up == clip_up(delta)
        down == clip_down(delta)
    IN  [j \in 1..Len(series) |->
            LET ma_up == RollingMean(up, period, j)
                ma_down == RollingMean(down, period, j)
                rs == FDiv(ma_up, ma_down)
            IN  FSub(Fin(100, 1), FDiv(Fin(100, 1), FAdd(Fin(1, 1), rs)))]

RECURSIVE EmaAcc(_, _, _)
\* the EMA at row j as num / pow, pow = (period+1)^(j-1):
\* y[1] = x[1], y[j] = (2 x[j] + (period-1) y[j-1]) / (period+1), so
\* num[j] = 2 x[j] pow[j-1] + (period-1) num[j-1]
EmaAcc(series, period, j) ==
    IF j = 1 THEN [num |-> BigFromNat(series[1]), pow |-> <<1>>]
    ELSE LET prev == EmaAcc(series, period, j - 1)
             pow == BigMul(prev.pow, period + 1)
         IN  \* the tests make TLC compute prev and pow before it goes on
             IF prev.pow = <<>> \/ pow = <<>> THEN prev
             ELSE [num |-> BigAdd(BigMul(prev.pow, 2 * series[j]),
                                  BigMul(prev.num, period - 1)),
                   pow |-> pow]

\* series.ewm(span=period, adjust=False).mean()
compute_ema(series, period) ==
    [j \in 1..Len(series) |->
        [num |-> EmaAcc(series, period, j).num, base |-> period + 1, exp |-> j - 1]]

\* a < b for two EMA values
EmaLess(x, y) ==
    BigLess(BigMulPow(x.num, y.base, y.exp), BigMulPow(y.num, x.base, x.exp))

(***************************************************************************)
(* Candle patterns (lines 81-115).  A candle is a row of the frame:        *)
(* [ts, open, high, low, close, volume].                                   *)
(***************************************************************************)
\* The mutant of is_hammer_candle: an upper shadow up to the body is small
is_hammer_upper_le_body(c) ==
    LET body == Abs(c.close - c.open)
        lower == Min2(c.open, c.close) - c.low
        upper == c.high - Max2(c.open, c.close)
    IN  IF body = 0 THEN FALSE
        ELSE /\ lower * ShadowDen > body * ShadowLong
             /\ upper <= body

is_hammer_candle(c) ==
    LET body == Abs(c.close - c.open)
        lower == Min2(c.open, c.close) - c.low
        upper == c.high - Max2(c.open, c.close)
    IN  IF body = 0 THEN FALSE
        ELSE /\ lower * ShadowDen > body * ShadowLong
             /\ upper * ShadowDen < body * ShadowShort

\* The mutant of is_shooting_star_candle: the hammer's test copied unchanged
is_shooting_star_copied(c) ==
    LET body == Abs(c.close - c.open)
        lower == Min2(c.open, c.close) - c.low
        upper == c.high - Max2(c.open, c.close)
    IN  IF body = 0 THEN FALSE
        ELSE /\ lower * ShadowDen > body * ShadowLong
             /\ upper * ShadowDen < body * ShadowShort

is_shooting_star_candle(c) ==
    LET body == Abs(c.close - c.open)
        upper == c.high - Max2(c.open, c.close)
        lower == Min2(c.open, c.close) - c.low
    IN  IF body = 0 THEN FALSE
        ELSE /\ upper * ShadowDen > body * ShadowLong
             /\ lower * ShadowDen < body * ShadowShort

\* trend_confirmation(candles, direction, required_count) on a non-empty list
trend_confirmation(candles, direction, required_count) ==
    LET n == Len(candles)
    IN  IF direction = "down"
        THEN LET count_bear ==
                     Cardinality({j \in 1..n : candles[j].close < candles[j].open})
                 falling == candles[n].close < candles[1].close
             IN  count_bear >= required_count /\ falling
        ELSE LET count_bull ==
                     Cardinality({j \in 1..n : candles[j].close > candles[j].open})
                 rising == candles[n].close > candles[1].close
             IN  count_bull >= required_count /\ rising

(***************************************************************************)
(* analyze_pair (lines 119-172).  The result of fetch_ohlcv_df is          *)
(* [ok, rows]: ok is FALSE when the fetch raised.  analyze_pair is         *)
(* modelled by the values of its local variables when it returns.          *)
(***************************************************************************)
NoCandle == [ts |-> 0, open |-> 0, high |-> 0, low |-> 0, close |-> 0, volume |-> 0]
NoEma == [num |-> <<>>, base |-> 1, exp |-> 0]

\* what analyze_pair leaves when it returns before the evaluation
Returned(sigs, exc) ==
    [signals |-> sigs, raised |-> exc, evaluated |-> FALSE,
     trend_candles |-> <<>>, pattern_candle |-> NoCandle,
     avg_vol |-> NaN, vol_ok |-> FALSE,
     ema_fast |-> NoEma, ema_slow |-> NoEma, rsi_val |-> NaN]

Column(rows, name) == [j \in 1..Len(rows) |-> rows[j][name]]

\* df["volume"][-20:].mean() if len(df) >= 20 else df["volume"].mean()
avg_volume(volume) ==
    LET n == Len(volume)
    IN  IF n >= VolRows
        THEN Fin(SumSeq(SubSeq(volume, n - VolRows + 1, n)), VolRows)
        ELSE IF n = 0 THEN NaN ELSE Fin(SumSeq(volume), n)

\* vol_ok = (avg_vol is not None) and (last_vol >= avg_vol * VOLUME_MULTIPLIER)
volume_filter(last_vol, avg_vol) ==
    FGe(Fin(last_vol, 1), FMul(avg_vol, Fin(VolMulNum, VolMulDen)))

MakeSignal(typ, direction, c, rsi_val, avg_vol) ==
    [typ |-> typ, direction |-> direction, price |-> c.close, time |-> c.ts,
     rsi |-> rsi_val, avg_vol |-> avg_vol, last_vol |-> c.volume]

\* The mutant of hammer_block: the volume filter left out
hammer_block_novol(pattern_candle, trend_candles, ema_fast, ema_slow, vol_ok, rsi_val, avg_vol) ==
    IF is_hammer_candle(pattern_candle)
    THEN LET trend_ok == trend_confirmation(trend_candles, "down", 3)
             ema_ok == EmaLess(ema_fast, ema_slow)
             rsi_ok == FLe(rsi_val, Fin(RSI_OVERSOLD, 1))
         IN  IF trend_ok /\ ema_ok /\ rsi_ok
             THEN <<MakeSignal("HAMMER", "LONG", pattern_candle, rsi_val, avg_vol)>>
             ELSE <<>>
    ELSE <<>>

\* lines 154-161
hammer_block(pattern_candle, trend_candles, ema_fast, ema_slow, vol_ok, rsi_val, avg_vol) ==
    IF is_hammer_candle(pattern_candle)
    THEN LET trend_ok == trend_confirmation(trend_candles, "down", 3)
             ema_ok == EmaLess(ema_fast, ema_slow)
             rsi_ok == FLe(rsi_val, Fin(RSI_OVERSOLD, 1))
         IN  IF trend_ok /\ ema_ok /\ vol_ok /\ rsi_ok
             THEN <<MakeSignal("HAMMER", "LONG", pattern_candle, rsi_val, avg_vol)>>
             ELSE <<>>
    ELSE <<>>

\* lines 163-170
star_block(pattern_candle, trend_candles, ema_fast, ema_slow, vol_ok, rsi_val, avg_vol) ==
    IF is_shooting_star_candle(pattern_candle)
    THEN LET trend_ok == trend_confirmation(trend_candles, "up", 3)
             ema_ok == EmaLess(ema_slow, ema_fast)
             rsi_ok == FGe(rsi_val, Fin(RSI_OVERBOUGHT, 1))
         IN  IF trend_ok /\ ema_ok /\ vol_ok /\ rsi_ok
             THEN <<MakeSignal("SHOOTING_STAR", "SHORT", pattern_candle, rsi_val, avg_vol)>>
             ELSE <<>>
    ELSE <<>>

\* The mutant of prev_row: the indicators of the pattern row itself
last_row(col) == col[Len(col)]

\* col.iloc[-2]: the row before the last one
prev_row(col) == col[Len(col) - 1]

\* lines 130-172 on a frame of any length: .iloc[-1] of an empty frame and
\* .iloc[-2] of a frame of one row raise IndexError
evaluate(rows) ==
    LET n == Len(rows)
        last6 == SubSeq(rows, Max2(1, n - WindowRows + 1), n)
        trend_candles == SubSeq(last6, 1, Min2(WindowRows - 1, Len(last6)))
        pattern_candle == last6[Len(last6)]
        last_vol == pattern_candle.volume
        avg_vol == avg_volume(Column(rows, "volume"))
        rsi == compute_rsi(Column(rows, "close"), RSI_PERIOD)
        emaf == compute_ema(Column(rows, "close"), EMA_FAST)
        emas == compute_ema(Column(rows, "close"), EMA_SLOW)
        vol_ok == volume_filter(last_vol, avg_vol)
        ema_fast == prev_row(emaf)
        ema_slow == prev_row(emas)
        rsi_val == prev_row(rsi)
    IN  IF n < 2 THEN Returned(<<>>, TRUE)
        ELSE [signals |->
                 hammer_block(pattern_candle, trend_candles, ema_fast, ema_slow,
                              vol_ok, rsi_val, avg_vol)
                 \o star_block(pattern_candle, trend_candles, ema_fast, ema_slow,
                               vol_ok, rsi_val, avg_vol),
              raised |-> FALSE, evaluated |-> TRUE,
              trend_candles |-> trend_candles, pattern_candle |-> pattern_candle,
              avg_vol |-> avg_vol, vol_ok |-> vol_ok,
              ema_fast |-> ema_fast, ema_slow |-> ema_slow,
              rsi_val |-> rsi_val]

analyze_pair(fetched) ==
    IF ~fetched.ok THEN Returned(<<>>, FALSE)
    ELSE IF Len(fetched.rows) < WindowRows THEN Returned(<<>>, FALSE)
    ELSE evaluate(fetched.rows)

(***************************************************************************)
(* Input frames for the evaluation: what the provider may return.          *)
(* A frame of n rows is a prefix (rows 1 .. n-6), the trend window (rows   *)
(* n-5 .. n-1) and the pattern row n.  Row j opens at the close of row     *)
(* j-1 and closes delta(j) higher; the closes are anchored at row n-1.     *)
(***************************************************************************)
MaxLen == 21
\* the pattern candles of the grid family take their prices in
\* GridLo .. GridLo + GridSpan
GridSpan == 4
GridLo == 98
Anchor == 101

PrefixKinds == {"flat", "dip", "peak", "mixdown", "mixup"}

\* delta of the m-th row before the trend window (m = 1 is row n-6)
PrefixDelta(kind, m) ==
    CASE kind = "down" -> 0 - 2
      [] kind = "up" -> 2
      [] kind = "flat" -> 0
      [] kind = "dip" -> IF m <= 9 THEN 1 ELSE 0 - 10
      [] kind = "peak" -> IF m <= 9 THEN 0 - 1 ELSE 10
      [] kind = "mixdown" -> IF m % 2 = 1 THEN 0 - 3 ELSE 1
      [] kind = "mixup" -> IF m % 2 = 1 THEN 3 ELSE 0 - 1

WindowKinds ==
    { <<0 - 1, 0 - 1, 0 - 1, 0 - 1, 0 - 1>>, <<1, 1, 1, 1, 1>>,
      <<0 - 1, 0 - 1, 2, 2, 0 - 1>>, <<1, 1, 0 - 2, 0 - 2, 1>>,
      <<1, 0 - 2, 1, 0 - 2, 0 - 1>>, <<0 - 1, 2, 0 - 1, 2, 1>>,
      <<0 - 1, 0 - 1, 0 - 1, 1, 1>>, <<0, 0, 0, 0, 0>> }

\* [open, high, low, close] of the pattern row
Shapes ==
    { <<100, 100, 90, 99>>, <<100, 101, 90, 99>>, <<100, 110, 100, 101>>,
      <<100, 105, 95, 100>>, <<100, 103, 98, 102>>, <<100, 105, 91, 105>> }

LastVols == {11, 30}

\* delta of row j of a frame of n rows (j <= n-1)
RowDelta(n, pk, wk, j) ==
    IF j >= n - 5 THEN wk[j - (n - 6)] ELSE PrefixDelta(pk, n - 5 - j)

RECURSIVE ClosesFrom(_, _, _, _)
\* the closes of rows j .. n-1, row n-1 closing at Anchor
ClosesFrom(n, pk, wk, j) ==
    IF j >= n - 1 THEN <<Anchor>>
    ELSE LET rest == ClosesFrom(n, pk, wk, j + 1)
         IN  <<rest[1] - RowDelta(n, pk, wk, j + 1)>> \o rest

Frame(n, pk, wk, shape, lastVol) ==
    LET closes == ClosesFrom(n, pk, wk, 1)
    IN  [j \in 1..n |->
            IF j = n
            THEN [ts |-> 0 - Interval, open |-> shape[1], high |-> shape[2],
                  low |-> shape[3], close |-> shape[4], volume |-> lastVol]
            ELSE LET c == closes[j]
                     o == c - RowDelta(n, pk, wk, j)
                 IN  [ts |-> 0 - (n - j + 1) * Interval, open |-> o,
                      high |-> Max2(o, c), low |-> Min2(o, c), close |-> c,
                      volume |-> IF j <= 2 THEN 40 ELSE 10]]

\* every pattern candle of a small price grid, after a falling history
GridPrices == GridLo..(GridLo + GridSpan)

GridFrame(shape) ==
    Frame(RSI_PERIOD + 2, "mixdown", <<0 - 1, 0 - 1, 0 - 1, 0 - 1, 0 - 1>>, shape, 30)

\* Scenario A of the specification: rows 11-15 are bearish with closes
\* 105 > 104 > 103 > 102 > 101, the pattern row is (100, 101, 90, 99), and
\* the 14 deltas up to row 15 gain 7 and lose 13, so the RSI there is 35
ScenarioCloses == <<107, 104, 106, 103, 105, 102, 105, 105, 105, 105,
                    105, 104, 103, 102, 101>>

ScenarioFrame(shape) ==
    [j \in 1..16 |->
        IF j = 16
        THEN [ts |-> 0 - Interval, open |-> shape[1], high |-> shape[2],
              low |-> shape[3], close |-> shape[4], volume |-> 10]
        ELSE LET c == ScenarioCloses[j]
                 o == IF j >= 11 THEN c + 1 ELSE IF j = 1 THEN c ELSE ScenarioCloses[j - 1]
             IN  [ts |-> 0 - (17 - j) * Interval, open |-> o,
                  high |-> Max2(o, c), low |-> Min2(o, c), close |-> c,
                  volume |-> 10]]

ScenarioA == ScenarioFrame(<<100, 101, 90, 99>>)
\* the same history before a candle without upper shadow
ScenarioHammer == ScenarioFrame(<<100, 100, 90, 99>>)

Fetched(rows) == [ok |-> TRUE, rows |-> rows, at |-> 0]
FetchFailed == [ok |-> FALSE, rows |-> <<>>, at |-> 0]

(***************************************************************************)
(* The evaluation alone: analyze_pair applied to every input frame         *)
(***************************************************************************)
Idle ==
    /\ now = 0 /\ i = 1 /\ sigIdx = 0 /\ processed = <<>>
    /\ notifyResults = <<>> /\ logResults = <<>> /\ logfile = <<>>

InitEval ==
    /\ pc = "fetched"
    /\ \/ \E n \in 0..MaxLen, pk \in PrefixKinds, wk \in WindowKinds,
             sh \in Shapes, lv \in LastVols :
              df = Fetched(Frame(n, pk, wk, sh, lv))
       \/ \E o \in GridPrices, h \in GridPrices, l \in GridPrices, c \in GridPrices :
              df = Fetched(GridFrame(<<o, h, l, c>>))
       \/ df \in {Fetched(ScenarioA), Fetched(ScenarioHammer)}
    /\ locals = Returned(<<>>, FALSE)
    /\ Idle

Analyze ==
    /\ pc = "fetched"
    /\ locals' = analyze_pair(df)
    /\ pc' = "analysed"
    /\ UNCHANGED <<now, i, df, sigIdx, processed, notifyResults,
                   logResults, logfile>>

NextEval == Analyze

SpecEval == InitEval /\ [][NextEval]_vars

(***************************************************************************)
(* main (lines 176-218)                                                    *)
(***************************************************************************)
\* how long past its argument time.sleep may return, in seconds
MaxOversleep == 1
\* how long a fetch may take, in seconds
MaxFetchSecs == 1

seconds_to_next_15min(t) ==
    LET rem == t % Interval
    IN  IF rem # 0 THEN Interval - rem ELSE 0

\* time.sleep(secs) returning over seconds late
Slept(t, secs, over) == (t + secs + over) % Interval

\* What the provider returns in the loop: a frame too short to evaluate, a
\* frame with a confirmed hammer, one with a confirmed shooting star, one
\* without a pattern
ProviderFrames ==
    { Frame(3, "flat", <<0, 0, 0, 0, 0>>, <<100, 103, 98, 102>>, 30),
      Frame(16, "mixdown", <<0 - 1, 0 - 1, 0 - 1, 0 - 1, 0 - 1>>, <<100, 100, 90, 99>>, 30),
      Frame(16, "mixup", <<1, 1, 1, 1, 1>>, <<100, 110, 100, 101>>, 30),
      Frame(16, "flat", <<0, 0, 0, 0, 0>>, <<100, 103, 98, 102>>, 30) }

\* The provider's last row is the candle that opened at the last boundary
\* (still forming) or the one before it (closed).  Timestamps are in seconds
\* from the start of the interval in which the fetch happens.
Stamp(rows, forming) ==
    [j \in 1..Len(rows) |->
        [rows[j] EXCEPT !.ts = IF forming THEN @ + Interval ELSE @]]

\* The mutant of on_pair_exception: no handler around the loop body
on_pair_exception_uncaught == "crashed"

\* lines 210-212: an exception raised in the loop body is printed and the
\* loop goes on with the delay
on_pair_exception == "delay"

\* The mutant of send_telegram_raises: no try/except around requests.post
send_telegram_unguarded(outcome) == outcome = "exception"

\* lines 41-46: whether send_telegram lets an exception out; it catches the
\* exception of requests.post and only prints a status other than 200
send_telegram_raises(outcome) == FALSE

\* the line log_signal writes for a signal of a pair
LogLine(pair, sig) == [pair |-> pair, typ |-> sig.typ, direction |-> sig.direction,
                       price |-> sig.price, time |-> sig.time, rsi |-> sig.rsi]

Init ==
    /\ pc = "start"
    /\ now \in 0..(Interval - 1)
    /\ i = 1
    /\ df = FetchFailed
    /\ locals = Returned(<<>>, FALSE)
    /\ sigIdx = 0
    /\ processed = <<>>
    /\ notifyResults = <<>> /\ logResults = <<>> /\ logfile = <<>>

\* lines 183-187
StartAlign ==
    /\ pc = "start"
    /\ LET wait == seconds_to_next_15min(now)
       IN  \/ /\ wait # 0
              /\ \E over \in 0..MaxOversleep : now' = Slept(now, wait + 1, over)
           \/ /\ wait = 0
              /\ now' = now
    /\ pc' = "scan"
    /\ UNCHANGED <<i, df, locals, sigIdx, processed, notifyResults,
                   logResults, logfile>>

\* lines 189-192: a cycle starts
CycleStart ==
    /\ pc = "scan"
    /\ i' = 1
    /\ processed' = <<>>
    /\ pc' = "pair"
    /\ UNCHANGED <<now, df, locals, sigIdx, notifyResults, logResults, logfile>>

\* The frames the provider may return, each with what analyze_pair returns
\* for it (analyze_pair does not read the clock)
ProviderFetches ==
    { [rows |-> Stamp(rows, forming),
       returned |-> analyze_pair(Fetched(Stamp(rows, forming)))] :
          rows \in ProviderFrames, forming \in BOOLEAN }

\* where the loop body goes once analyze_pair has returned
AfterAnalysis(res) == IF res.signals # <<>> THEN "notify" ELSE "delay"

\* lines 193-195 and analyze_pair: the fetch raises, or returns a frame that
\* is evaluated, or something in the evaluation raises
AnalyzePair ==
    /\ pc = "pair"
    /\ processed' = Append(processed, PAIRS[i])
    /\ notifyResults' = <<>> /\ logResults' = <<>> /\ logfile' = <<>>
    /\ sigIdx' = 1
    /\ \E dur \in 0..MaxFetchSecs :
        /\ now' = (now + dur) % Interval
        /\ \/ /\ df' = [FetchFailed EXCEPT !.at = now']
              /\ locals' = analyze_pair(df')
              /\ pc' = AfterAnalysis(locals')
           \/ \E fetch \in ProviderFetches :
                /\ df' = [ok |-> TRUE, rows |-> fetch.rows, at |-> now']
                /\ locals' = fetch.returned
                /\ pc' = IF locals'.raised THEN on_pair_exception
                         ELSE AfterAnalysis(locals')
           \/ \E rows \in ProviderFrames :
                /\ df' = [ok |-> TRUE, rows |-> Stamp(rows, TRUE), at |-> now']
                /\ locals' = Returned(<<>>, TRUE)
                /\ pc' = on_pair_exception
    /\ UNCHANGED i

\* lines 196-205 and send_telegram
SendTelegram ==
    /\ pc = "notify"
    /\ \E outcome \in {"ok", "non200", "exception"} :
        /\ notifyResults' = Append(notifyResults, outcome)
        /\ pc' = IF send_telegram_raises(outcome) THEN on_pair_exception ELSE "log"
    /\ UNCHANGED <<now, i, df, locals, sigIdx, processed, logResults, logfile>>

\* lines 206-207 and log_signal: the line is appended, or the write raises
LogSignal ==
    /\ pc = "log"
    /\ \/ /\ logfile' = Append(logfile, LogLine(PAIRS[i], locals.signals[sigIdx]))
          /\ logResults' = Append(logResults, "ok")
          /\ IF sigIdx < Len(locals.signals)
             THEN sigIdx' = sigIdx + 1 /\ pc' = "notify"
             ELSE sigIdx' = sigIdx /\ pc' = "delay"
       \/ /\ logResults' = Append(logResults, "error")
          /\ pc' = on_pair_exception
          /\ UNCHANGED <<logfile, sigIdx>>
    /\ UNCHANGED <<now, i, df, locals, processed, notifyResults>>

\* line 212, then the next pair or the end of the cycle; the frame and the
\* locals of analyze_pair are gone
InterDelay ==
    /\ pc = "delay"
    /\ now' = Slept(now, INTER_DELAY, 0)
    /\ df' = FetchFailed /\ locals' = Returned(<<>>, FALSE)
    /\ IF i < Len(PAIRS)
       THEN i' = i + 1 /\ pc' = "pair"
       ELSE i' = i /\ pc' = "cycle_end"
    /\ UNCHANGED <<sigIdx, processed, notifyResults, logResults, logfile>>

\* lines 214-218
CycleEnd ==
    /\ pc = "cycle_end"
    /\ LET s == seconds_to_next_15min(now)
           to_sleep == IF s = 0 THEN Interval ELSE s
       IN  \E over \in 0..MaxOversleep : now' = Slept(now, to_sleep + 1, over)
    /\ pc' = "scan"
    /\ UNCHANGED <<i, df, locals, sigIdx, processed, notifyResults,
                   logResults, logfile>>

Next ==
    \/ StartAlign
    \/ CycleStart
    \/ AnalyzePair
    \/ SendTelegram
    \/ LogSignal
    \/ InterDelay
    \/ CycleEnd

Spec == Init /\ [][Next]_vars

\* main is one thread that is never blocked for ever: sleeps and network
\* calls (with their timeouts) return
FairSpec == Spec /\ WF_vars(Next)

(***************************************************************************)
(* Properties of the evaluation (SpecEval)                                 *)
(***************************************************************************)
Analysed == pc = "analysed"
NRows == Len(df.rows)
PatternRow == df.rows[NRows]
Emitted(typ, direction) ==
    \E k \in 1..Len(locals.signals) :
        locals.signals[k].typ = typ /\ locals.signals[k].direction = direction

\* The sub-conditions, as the specification words them
ShapeBody(c) == Abs(c.close - c.open)
LowerShadow(c) == Min2(c.open, c.close) - c.low
UpperShadow(c) == c.high - Max2(c.open, c.close)
HammerShape(c) ==
    /\ ShapeBody(c) > 0
    /\ 10 * LowerShadow(c) > 18 * ShapeBody(c)
    /\ 10 * UpperShadow(c) < 6 * ShapeBody(c)
StarShape(c) ==
    /\ ShapeBody(c) > 0
    /\ 10 * UpperShadow(c) > 18 * ShapeBody(c)
    /\ 10 * LowerShadow(c) < 6 * ShapeBody(c)
\* rows n-5 .. n-1: the 5 candles before the pattern candle
Preceding5 == SubSeq(df.rows, NRows - 5, NRows - 1)
TrendDown(w) ==
    /\ Cardinality({j \in 1..5 : w[j].close < w[j].open}) >= 3
    /\ w[5].close < w[1].close
TrendUp(w) ==
    /\ Cardinality({j \in 1..5 : w[j].close > w[j].open}) >= 3
    /\ w[5].close > w[1].close
\* pattern volume >= 0.9 x the mean volume of the trailing 20 rows, of all
\* the rows when there are fewer than 20
VolumeAtLeast90Percent ==
    LET k == IF NRows >= 20 THEN 20 ELSE NRows
        sum == SumSeq([m \in 1..k |-> df.rows[NRows - k + m].volume])
    IN  10 * k * PatternRow.volume >= 9 * sum

InScenarioA == Analysed /\ df.rows = ScenarioA
FEq(a, b) == a.k = "fin" /\ b.k = "fin" /\ a.n * b.d = b.n * a.d

\* C6 as amended: in scenario A (candles 1-5 bearish with falling closes,
\* pattern candle open=100 high=101 low=90 close=99, RSI 35 at candle 5, fast
\* EMA < slow EMA, volume >= 0.9 x average) the pattern candle does not match
\* the hammer shape, its upper shadow 1 being no less than 0.6 x body = 0.6,
\* and the evaluator emits no signal
C6_ScenarioANoSignal ==
    InScenarioA =>
        /\ ~is_hammer_candle(locals.pattern_candle)
        /\ locals.signals = <<>>

\* C6 as stated: in scenario A the pattern candle matches the hammer shape
\* and exactly one signal, HAMMER/LONG at price 99, is emitted
C6_ScenarioAOneHammer ==
    InScenarioA =>
        /\ is_hammer_candle(locals.pattern_candle)
        /\ Len(locals.signals) = 1
        /\ locals.signals[1].typ = "HAMMER"
        /\ locals.signals[1].direction = "LONG"
        /\ locals.signals[1].price = 99

\* scenario A has been evaluated and its premises hold
C6_Witness ==
    /\ InScenarioA
    /\ \A j \in 11..15 : df.rows[j].close < df.rows[j].open
    /\ \A j \in 12..15 : df.rows[j].close < df.rows[j - 1].close
    /\ PatternRow.open = 100 /\ PatternRow.high = 101
    /\ PatternRow.low = 90 /\ PatternRow.close = 99
    /\ FEq(locals.rsi_val, Fin(35, 1))
    /\ EmaLess(locals.ema_fast, locals.ema_slow)
    /\ locals.vol_ok
    /\ TrendDown(Preceding5)

\* C7: no candle is both a hammer and a shooting star, a candle with body 0
\* is neither, and analyze_pair returns at most one signal
C7_PatternsExclusive ==
    Analysed =>
        /\ \A j \in 1..NRows :
              /\ ~(is_hammer_candle(df.rows[j]) /\ is_shooting_star_candle(df.rows[j]))
              /\ df.rows[j].close = df.rows[j].open =>
                    /\ ~is_hammer_candle(df.rows[j])
                    /\ ~is_shooting_star_candle(df.rows[j])
        /\ Len(locals.signals) <= 1

\* a hammer that is no shooting star has given the one signal
C7_Witness ==
    /\ Analysed /\ NRows >= 1
    /\ is_hammer_candle(PatternRow) /\ ~is_shooting_star_candle(PatternRow)
    /\ Len(locals.signals) = 1

\* C8 as amended: with fewer than 6 rows (trend window and pattern candle),
\* or fewer than RSI_PERIOD + 2 = 16 rows (the RSI read at the row before the
\* pattern row is undefined), analyze_pair returns no signal and raises no
\* error; the EMAs need no warm-up
C8_ShortHistoryNoSignal ==
    (Analysed /\ NRows < RSI_PERIOD + 2) =>
        locals.signals = <<>> /\ ~locals.raised

\* C8 as stated: the same below the warm-up of every indicator, the slow EMA
\* (50 closes absorbed at the row that is read) included
C8_BelowEveryWarmUpNoSignal ==
    (Analysed /\ NRows - 1 < EMA_SLOW) =>
        locals.signals = <<>> /\ ~locals.raised

\* 6 to 15 rows whose pattern, trend, volume and EMAs would confirm a hammer:
\* the undefined RSI alone holds the signal back
C8_Witness ==
    /\ Analysed /\ NRows >= 6 /\ NRows < RSI_PERIOD + 2
    /\ HammerShape(PatternRow) /\ TrendDown(Preceding5) /\ VolumeAtLeast90Percent
    /\ EmaLess(locals.ema_fast, locals.ema_slow)
    /\ locals.rsi_val.k = "nan"
    /\ locals.signals = <<>>

C10_RsiDefinedInRange ==
    Analysed =>
        LET closes == Column(df.rows, "close")
            rsi == compute_rsi(closes, RSI_PERIOD)
        IN  \A j \in (RSI_PERIOD + 1)..NRows :
                /\ rsi[j].k = "fin"
                /\ 0 <= rsi[j].n /\ rsi[j].n <= 100 * rsi[j].d
                /\ (\A m \in (j - RSI_PERIOD + 1)..j : closes[m] >= closes[m - 1])
                      => rsi[j].n = 100 * rsi[j].d

(***************************************************************************)
(* Properties of the loop (Spec, FairSpec)                                 *)
(***************************************************************************)
InBody == pc \in {"notify", "log", "delay"}

\* a candle is closed at a time of the interval of the fetch when its own
\* interval has elapsed
Closed(c, at) == c.ts + Interval <= at

\* C1: every row of a frame that analyze_pair evaluates, the pattern candle
\* included, is a candle closed at the time of the fetch
C1_OnlyClosedCandles ==
    (InBody /\ df.ok /\ locals.evaluated) =>
        \A j \in 1..Len(df.rows) : Closed(df.rows[j], df.at)

\* C2: a cycle never starts less than the settle delay after a boundary
C2_CycleStartsAfterSettle == pc = "scan" => now >= SettleDelay

C3_Safety ==
    /\ pc # "crashed"
    /\ pc = "pair" => processed = SubSeq(PAIRS, 1, i - 1)
    /\ InBody => processed = SubSeq(PAIRS, 1, i)
    /\ pc = "cycle_end" => processed = PAIRS
    /\ (InBody /\ ~df.ok) =>
          /\ pc = "delay"
          /\ locals.signals = <<>> /\ notifyResults = <<>> /\ logfile = <<>>

\* C3: no failure in the loop body aborts the cycle or the loop: the pairs
\* are processed once each in list order, a pair whose fetch failed gives no
\* signal, notification or log line, every cycle reaches its end and another
\* cycle starts after it
C3_FailuresNeverAbort ==
    /\ []C3_Safety
    /\ (pc = "scan") ~> (pc = "cycle_end")
    /\ (pc = "cycle_end") ~> (pc = "scan")

\* the fetch of the last pair has failed after an earlier pair was processed
C3_Witness ==
    pc = "delay" /\ i = Len(PAIRS) /\ ~df.ok /\ processed = PAIRS

\* C4: however send_telegram ends, log_signal is called for the signal, and
\* its line is in the log unless the write itself raises
C4_LoggedWhenNotifyFails ==
    /\ pc # "crashed"
    /\ pc = "log" => Len(notifyResults) = Len(logResults) + 1
    /\ pc = "delay" => Len(logResults) = Len(notifyResults)
    /\ InBody =>
          \A k \in 1..Len(logResults) :
              logResults[k] = "ok" =>
                  \E m \in 1..Len(logfile) :
                      logfile[m] = LogLine(PAIRS[i], locals.signals[k])
    /\ (pc = "delay" /\ ~locals.raised /\ \A k \in 1..Len(logResults) : logResults[k] = "ok")
          => Len(logfile) = Len(locals.signals)

\* a signal whose notification raised is in the log
C4_Witness ==
    /\ pc = "delay"
    /\ notifyResults = <<"exception">> /\ logResults = <<"ok">>
    /\ logfile = <<LogLine(PAIRS[i], locals.signals[1])>>

====
